---- MODULE Spec2Model ----
(***************************************************************************)
(* Model of Assignment1.cpp: the Bohr-model electron transition energy     *)
(* calculator.  The state is main's locals, the locals of the reader that  *)
(* is currently blocked in std::getline, the state of std::cin and the     *)
(* text written to std::cout.  One action is one step of the program       *)
(* between two blocking reads (or one statement block of main).            *)
(*                                                                         *)
(* A line of text is a sequence of one-character strings.                  *)
(***************************************************************************)
EXTENDS Integers, Sequences, FiniteSets, TLC

VARIABLES
    pc,               \* where the program is
    cinGood,          \* std::cin.good(): FALSE once a std::getline has failed
    out,              \* what was written to std::cout during the current pass of main's loop
    line,             \* std::string line of the reader that is running
    possibleInteger,  \* getint: long long possibleInteger
    min,              \* getint: parameter min
    max,              \* getint: parameter max
    firstStringSet,   \* getBetweenTwoStringSetOptions: parameter firstStringSet
    secondStringSet,  \* getBetweenTwoStringSetOptions: parameter secondStringSet
    ret,              \* the value the reader that ran last returned
    Z,                \* main: unsigned int Z
    nInitial,         \* main: unsigned int nInitial
    nFinal,           \* main: unsigned int nFinal
    eType,            \* main: EnergyType eType
    energy,           \* main: double energy
    shouldContinue    \* main: bool shouldContinue

vars == <<pc, cinGood, out, line, possibleInteger, min, max,
          firstStringSet, secondStringSet, ret,
          Z, nInitial, nFinal, eType, energy, shouldContinue>>

(***************************************************************************)
(* Bounds of the model.                                                    *)
(***************************************************************************)
\* the longest line typed that is built from NumChars
MaxLen == 2
\* how many rejected lines one pass of main's loop (one call, for a reader run alone) takes
MaxRetries == 1
\* the largest value an uninitialised int or long long is taken to hold
MaxUninit == 2
\* the most strings in a synonym set handed to the choice reader run alone
MaxSetLen == 2

(***************************************************************************)
(* Integer types.                                                          *)
(***************************************************************************)
INT_MAX == 2147483647
INT_MIN == -INT_MAX - 1

\* A long long is [k |-> "val", v |-> n] for a number n of the int range,
\* [k |-> "above"] for a number above INT_MAX and [k |-> "below"] for a number
\* below INT_MIN other than std::numeric_limits<long long>::min(), which is
\* [k |-> "min", v |-> 0]; v is then the low 32 bits of the number, read as an
\* int.  [k |-> "uninit", v |-> 0] is a long long that was declared and never
\* written.
LLVal(n) == [k |-> "val", v |-> n]
LLAbove(low) == [k |-> "above", v |-> low]
LLBelow(low) == [k |-> "below", v |-> low]
LLONG_MIN == [k |-> "min", v |-> 0]
LLONG_MAX == LLAbove(-1)
LLUninit == [k |-> "uninit", v |-> 0]

\* the range check with the upper end left out: possibleInteger < (long long)hi
LLInRangeExclusiveMax(ll, lo, hi) == ll.k = "val" /\ ll.v >= lo /\ ll.v < hi

\* possibleInteger >= (long long)lo && possibleInteger <= (long long)hi
LLInRange(ll, lo, hi) == ll.k = "val" /\ ll.v >= lo /\ ll.v <= hi

\* the values reading an uninitialised int or long long may give
Uninit == 0..MaxUninit

\* the long long -> int conversion of `return possibleInteger;`
\* (the low 32 bits: those of LLONG_MIN are all zero)
LLToInt(ll) ==
    IF ll.k = "min" THEN 0
    ELSE IF ll.v >= INT_MIN /\ ll.v <= INT_MAX THEN ll.v
    ELSE IF ll.v > INT_MAX THEN (ll.v - INT_MAX) - INT_MAX - 2
    ELSE (ll.v + INT_MAX) + INT_MAX + 2

\* (unsigned int)i: the identity on 0..INT_MAX, i + 2^32 below 0
ToUnsigned(i) == IF i >= 0 THEN i ELSE (i + INT_MAX) + INT_MAX + 2

(***************************************************************************)
(* Characters and lines.                                                   *)
(***************************************************************************)
DigitChars == <<"0", "1", "2", "3", "4", "5", "6", "7", "8", "9">>
UpperChars == <<"A", "B", "C", "D", "E", "F", "G", "H", "I", "J", "K", "L", "M",
                "N", "O", "P", "Q", "R", "S", "T", "U", "V", "W", "X", "Y", "Z">>
LowerChars == <<"a", "b", "c", "d", "e", "f", "g", "h", "i", "j", "k", "l", "m",
                "n", "o", "p", "q", "r", "s", "t", "u", "v", "w", "x", "y", "z">>

\* std::isspace in the "C" locale
isspace(c) == c \in {" ", "\t", "\n", "\r"}
isdigit(c) == \E i \in 1..Len(DigitChars) : DigitChars[i] = c
DigitVal(c) == (CHOOSE i \in 1..Len(DigitChars) : DigitChars[i] = c) - 1

\* std::tolower in the "C" locale
UpperToLower ==
    [c \in {UpperChars[i] : i \in 1..Len(UpperChars)} |->
        LowerChars[CHOOSE i \in 1..Len(UpperChars) : UpperChars[i] = c]]
tolower(c) == IF c \in DOMAIN UpperToLower THEN UpperToLower[c] ELSE c

\* the first position from i on that holds no white space (Len(s) + 1: none)
SkipWs(s, i) ==
    CHOOSE j \in i..(Len(s) + 1) :
        /\ \A k \in i..(j - 1) : isspace(s[k])
        /\ (j = Len(s) + 1 \/ ~isspace(s[j]))

\* the first position from i on that holds no digit
SkipDigits(s, i) ==
    CHOOSE j \in i..(Len(s) + 1) :
        /\ \A k \in i..(j - 1) : isdigit(s[k])
        /\ (j = Len(s) + 1 \/ ~isdigit(s[j]))

\* the first position from i on that holds white space
SkipToken(s, i) ==
    CHOOSE j \in i..(Len(s) + 1) :
        /\ \A k \in i..(j - 1) : ~isspace(s[k])
        /\ (j = Len(s) + 1 \/ isspace(s[j]))

\* An unsigned magnitude is kept in four 16-bit limbs, the lowest first;
\* over says that it has left 64 bits.
Limb == 65536
ZeroMagnitude == [l |-> <<0, 0, 0, 0>>, over |-> FALSE]

\* 10 * m + d
MulAdd10(m, d) ==
    LET t1 == 10 * m.l[1] + d
        t2 == 10 * m.l[2] + (t1 \div Limb)
        t3 == 10 * m.l[3] + (t2 \div Limb)
        t4 == 10 * m.l[4] + (t3 \div Limb)
    IN  [l |-> <<t1 % Limb, t2 % Limb, t3 % Limb, t4 % Limb>>,
         over |-> m.over \/ t4 >= Limb]

\* the number the decimal digits s[i..j-1] spell, after acc
RECURSIVE DecValue(_, _, _, _)
DecValue(s, i, j, acc) ==
    IF i >= j THEN acc ELSE DecValue(s, i + 1, j, MulAdd10(acc, DigitVal(s[i])))

\* the 32 bits lo + 65536 * hi read as an int
Low32(lo, hi) == IF hi >= 32768 THEN (hi - Limb) * Limb + lo ELSE hi * Limb + lo

\* the low 32 bits of -(lo + 65536 * hi), read as an int
NegLow32(lo, hi) ==
    IF lo = 0 THEN Low32(0, (Limb - hi) % Limb) ELSE Low32(Limb - lo, Limb - 1 - hi)

\* what num_get stores in a long long for the magnitude m with or without a
\* minus sign, and whether it sets failbit: a number that does not fit is
\* stored as the nearest end of the range of long long
ToLongLong(neg, m) ==
    LET upper == m.l[3] = 0 /\ m.l[4] = 0
        isMin == m.l[1] = 0 /\ m.l[2] = 0 /\ m.l[3] = 0 /\ m.l[4] = 32768
    IN  IF ~neg
        THEN IF m.over \/ m.l[4] >= 32768 THEN [fail |-> TRUE, value |-> LLONG_MAX]
             ELSE IF upper /\ m.l[2] < 32768
                  THEN [fail |-> FALSE, value |-> LLVal(m.l[2] * Limb + m.l[1])]
             ELSE [fail |-> FALSE, value |-> LLAbove(Low32(m.l[1], m.l[2]))]
        ELSE IF m.over \/ (m.l[4] >= 32768 /\ ~isMin) THEN [fail |-> TRUE, value |-> LLONG_MIN]
             ELSE IF isMin THEN [fail |-> FALSE, value |-> LLONG_MIN]
             ELSE IF upper /\ (m.l[2] < 32768 \/ (m.l[2] = 32768 /\ m.l[1] = 0))
                  THEN [fail |-> FALSE, value |-> LLVal((-m.l[2]) * Limb - m.l[1])]
             ELSE [fail |-> FALSE, value |-> LLBelow(NegLow32(m.l[1], m.l[2]))]

(***************************************************************************)
(* Formatted extraction from the std::stringstream built on one line.      *)
(***************************************************************************)
\* input >> possibleInteger on the line s, possibleInteger holding old.
\* value is what possibleInteger holds afterwards, fail and eof the stream's
\* bits, pos the next unread position.  A line with nothing but white space
\* fails in the sentry and leaves possibleInteger alone; a line with no digits
\* where the number should start stores 0 and sets failbit (C++11 num_get);
\* so does a number that does not fit a long long, with the end of the range
\* stored.
ExtractLongLong(s, old) ==
    LET p == SkipWs(s, 1)
    IN  IF p > Len(s)
        THEN [fail |-> TRUE, eof |-> TRUE, pos |-> p, value |-> old]
        ELSE LET q == IF s[p] \in {"+", "-"} THEN p + 1 ELSE p
                 e == SkipDigits(s, q)
                 n == ToLongLong(s[p] = "-", DecValue(s, q, e, ZeroMagnitude))
             IN  IF e = q
                 THEN [fail |-> TRUE, eof |-> e > Len(s), pos |-> e, value |-> LLVal(0)]
                 ELSE [fail |-> n.fail, eof |-> e > Len(s), pos |-> e, value |-> n.value]

\* input >> emptyTest after an extraction that left the stream in state st:
\* the string extracted ("" when the stream is not good or holds only white space)
ExtractString(s, st) ==
    IF st.fail \/ st.eof THEN <<>>
    ELSE LET p == SkipWs(s, st.pos)
         IN  IF p > Len(s) THEN <<>> ELSE SubSeq(s, p, SkipToken(s, p) - 1)

\* one pass of getint's loop body over the line s, as far as the if:
\* possibleInteger = LLONG_MIN; input >> possibleInteger; and what
\* input >> emptyTest gives
Extraction(s) ==
    LET ex == ExtractLongLong(s, LLONG_MIN)
    IN  [value |-> ex.value, emptyTest |-> ExtractString(s, ex)]

\* the if of getint's loop body: the range check, then the test that
\* nothing is left on the line
Accepted(ex, lo, hi) ==
    /\ LLInRange(ex.value, lo, hi)
    /\ ex.emptyTest = <<>>

(***************************************************************************)
(* The lines typed.                                                        *)
(***************************************************************************)
NumChars == {"1", " ", "a"}

\* every line of at most MaxLen characters of NumChars
NumLines == UNION {[1..n -> NumChars] : n \in 0..MaxLen}

\* further lines with a sign, a zero or text after the number
ProbeLines == {
    <<"0">>, <<"1", "0">>, <<"0", "1">>, <<"+", "1">>, <<"1", "-">>,
    <<"-">>, <<"-", "1">>, <<"-", "1", "0">> }

WordLines == {
    <<"y">>, <<"Y", "E", "S">>, <<"y", "e">>, <<"y", "e", "s", "s">>,
    <<"t", "r", "u", "e">>,
    <<"n">>, <<"N", "o">>, <<"f", "a", "l", "s", "e">>,
    <<"m", "a", "y", "b", "e">>,
    <<"e">>, <<"E", "v">>, <<"e", "v", " ">>,
    <<"e", "l", "e", "c", "t", "r", "o", "n", " ", "v", "o", "l", "t">>,
    <<"E", "l", "e", "c", "t", "r", "o", "n", "-", "V", "o", "l", "t", "s">>,
    <<"j">>, <<"J", "o", "u", "l", "e">>, <<"j", "o", "u", "l", "e", "s">>,
    <<"j", "o", "u", "l">> }

AllLines == NumLines \cup ProbeLines \cup WordLines

\* lines around the ends of the ranges of int and of long long:
\* INT_MAX, INT_MAX + 1, 2^32, 2^32 + 1, 2^32 + 10, INT_MIN, INT_MIN - 1,
\* 1 - 2^32, LLONG_MAX, LLONG_MAX + 1, 2^64 + 1, LLONG_MIN, LLONG_MIN - 1
WideLines == {
    <<"2", "1", "4", "7", "4", "8", "3", "6", "4", "7">>,
    <<"2", "1", "4", "7", "4", "8", "3", "6", "4", "8">>,
    <<"4", "2", "9", "4", "9", "6", "7", "2", "9", "6">>,
    <<"4", "2", "9", "4", "9", "6", "7", "2", "9", "7">>,
    <<"4", "2", "9", "4", "9", "6", "7", "3", "0", "6">>,
    <<"-", "2", "1", "4", "7", "4", "8", "3", "6", "4", "8">>,
    <<"-", "2", "1", "4", "7", "4", "8", "3", "6", "4", "9">>,
    <<"-", "4", "2", "9", "4", "9", "6", "7", "2", "9", "5">>,
    <<"9", "2", "2", "3", "3", "7", "2", "0", "3", "6", "8", "5", "4", "7", "7", "5", "8", "0", "7">>,
    <<"9", "2", "2", "3", "3", "7", "2", "0", "3", "6", "8", "5", "4", "7", "7", "5", "8", "0", "8">>,
    <<"1", "8", "4", "4", "6", "7", "4", "4", "0", "7", "3", "7", "0", "9", "5", "5", "1", "6", "1", "7">>,
    <<"-", "9", "2", "2", "3", "3", "7", "2", "0", "3", "6", "8", "5", "4", "7", "7", "5", "8", "0", "8">>,
    <<"-", "9", "2", "2", "3", "3", "7", "2", "0", "3", "6", "8", "5", "4", "7", "7", "5", "8", "0", "9">> }

\* what getint extracts from each line
\* (@@ makes the function a table that is computed once)
Extracted == [s \in AllLines \cup WideLines |-> Extraction(s)] @@ <<>>

\* the lines typed at a reader of main: the values main casts to unsigned int
\* stay in 0..INT_MAX, so no line spells a negative number
Lines == {s \in AllLines :
             Extracted[s].value.k = "val" => Extracted[s].value.v >= 0}

\* the lines typed at getint run alone
SignedLines == NumLines \cup ProbeLines

\* "Sorry, the value you inputted was not valid." printed so far
Retries(o) == Cardinality({i \in 1..Len(o) : o[i].msg = "invalid"})

\* the user mistypes at most MaxRetries lines in one pass
CanRetry == Retries(out) < MaxRetries

(***************************************************************************)
(* The choice reader's comparison and the four synonym vectors.            *)
(***************************************************************************)
\* icompare: equal length, then equal character by character after tolower
icompare(a, b) ==
    IF Len(a) # Len(b) THEN FALSE
    ELSE \A i \in 1..Len(a) : tolower(a[i]) = tolower(b[i])

\* std::find_if(set.begin(), set.end(), ...) != set.end()
Found(set, l) == \E i \in 1..Len(set) : icompare(set[i], l)

validEV == <<
    <<"e">>,
    <<"e", "v">>,
    <<"e", "l", "e", "c", "t", "r", "o", "n", " ", "v", "o", "l", "t">>,
    <<"e", "l", "e", "c", "t", "r", "o", "n", "v", "o", "l", "t">>,
    <<"e", "l", "e", "c", "t", "r", "o", "n", "-", "v", "o", "l", "t">>,
    <<"e", "l", "e", "c", "t", "r", "o", "n", " ", "v", "o", "l", "t", "s">>,
    <<"e", "l", "e", "c", "t", "r", "o", "n", "v", "o", "l", "t", "s">>,
    <<"e", "l", "e", "c", "t", "r", "o", "n", "-", "v", "o", "l", "t", "s">> >>

\* the joule vector with a synonym of the electron-volt vector added
validJoulesWithEv == <<
    <<"j">>,
    <<"j", "o", "u", "l", "e">>,
    <<"j", "o", "u", "l", "e", "s">>,
    <<"E", "V">> >>

validJoules == <<
    <<"j">>,
    <<"j", "o", "u", "l", "e">>,
    <<"j", "o", "u", "l", "e", "s">> >>

validTrues == <<
    <<"y", "e", "s">>,
    <<"y">>,
    <<"t", "r", "u", "e">>,
    <<"1">> >>

validFalses == <<
    <<"n", "o">>,
    <<"n">>,
    <<"f", "a", "l", "s", "e">>,
    <<"0">> >>

\* the if / else if with the second set tested first
MatchedSecondFirst(first, second, l) ==
    IF Found(second, l) THEN -1
    ELSE IF Found(first, l) THEN 1
    ELSE 0

\* the if / else if of getBetweenTwoStringSetOptions' loop body, for the sets
\* first and second: the response it breaks out with, 0 when it goes on to
\* print and read again
Matched(first, second, l) ==
    IF Found(first, l) THEN 1
    ELSE IF Found(second, l) THEN -1
    ELSE 0

\* Matched for every line typed, as a table that is computed once
Responses(first, second) ==
    [l \in AllLines |-> Matched(first, second, l)] @@ <<>>

\* the two calls: getEnergyType's and getBool's
EnergyTypeResponses == Responses(validEV, validJoules)
BoolResponses == Responses(validTrues, validFalses)

(***************************************************************************)
(* double arithmetic.  A double is kept exactly: [k |-> "fin"] is the      *)
(* number (n / d) * RYDBERG_CONSTANT^r * 10^e with d > 0 and n / d in      *)
(* lowest terms, [k |-> "inf"] is +infinity (n = 1) or -infinity (n = -1), *)
(* [k |-> "nan"] is a NaN.  Rounding is not modelled.                      *)
(***************************************************************************)
\* (functions, so that the operands are evaluated once)
GcdOf[a \in Nat, b \in Nat] == IF b = 0 THEN a ELSE GcdOf[b, a % b]
Gcd(a, b) == GcdOf[a, b]

Abs(a) == IF a < 0 THEN -a ELSE a

FinOf[n \in Int, d \in Nat, r \in Int, e \in Int] ==
    [k |-> "fin", n |-> n \div Gcd(Abs(n), d), d |-> d \div Gcd(Abs(n), d), r |-> r, e |-> e]
Fin(n, d, r, e) == FinOf[n, d, r, e]
Inf(sign) == [k |-> "inf", n |-> sign, d |-> 1, r |-> 0, e |-> 0]
NaN == [k |-> "nan", n |-> 0, d |-> 1, r |-> 0, e |-> 0]

Sign(x) == IF x.n > 0 THEN 1 ELSE IF x.n < 0 THEN -1 ELSE 0

\* (double)u
ToDouble(u) == Fin(u, 1, 0, 0)

\* the doubles of the model
Doubles == [k : {"fin", "inf", "nan"}, n : Int, d : Nat, r : Int, e : Int]

\* x * y
DMulOf[x \in Doubles, y \in Doubles] ==
    IF x.k = "nan" \/ y.k = "nan" THEN NaN
    ELSE IF x.k = "inf" \/ y.k = "inf"
         THEN IF Sign(x) * Sign(y) = 0 THEN NaN ELSE Inf(Sign(x) * Sign(y))
    ELSE LET g1 == Gcd(Abs(x.n), y.d)
             g2 == Gcd(Abs(y.n), x.d)
         IN  Fin((x.n \div g1) * (y.n \div g2), (x.d \div g2) * (y.d \div g1),
                 x.r + y.r, x.e + y.e)
DMul(x, y) == DMulOf[x, y]

\* x - y, for plain numbers (r = 0 and e = 0)
DSubOf[x \in Doubles, y \in Doubles] ==
    IF x.k = "nan" \/ y.k = "nan" THEN NaN
    ELSE IF x.k = "inf" /\ y.k = "inf"
         THEN IF x.n = y.n THEN NaN ELSE Inf(x.n)
    ELSE IF x.k = "inf" THEN Inf(x.n)
    ELSE IF y.k = "inf" THEN Inf(-y.n)
    ELSE Fin(x.n * y.d - y.n * x.d, x.d * y.d, 0, 0)
DSub(x, y) == DSubOf[x, y]

\* 1.0 / x, for a plain number x >= 0
DInvOf[x \in Doubles] ==
    IF x.k = "nan" THEN NaN
    ELSE IF x.k = "inf" THEN Fin(0, 1, 0, 0)
    ELSE IF x.n = 0 THEN Inf(1)
    ELSE Fin(x.d, x.n, 0, 0)
DInv(x) == DInvOf[x]

\* std::pow(x, 2.0)
DSquare(x) == DMul(x, x)

\* x > 0.0
DPositive(x) == x.k # "nan" /\ x.n > 0

\* the Rydberg constant in electron-volts, 13.60569300984: the unit of the model's energies
RYDBERG_CONSTANT == [k |-> "fin", n |-> 1, d |-> 1, r |-> 1, e |-> 0]

\* 1.6e-19 = (8 / 5) * 10^-19
EV_TO_JOULES == [k |-> "fin", n |-> 8, d |-> 5, r |-> 0, e |-> -19]

\* the formula with the two levels exchanged: 1/nInitial^2 - 1/nFinal^2
calculateBohrEnergySwapped(Zu, nInitialU, nFinalU, eT) ==
    LET eV == DMul(DMul(RYDBERG_CONSTANT, DSquare(ToDouble(Zu))),
                   DSub(DInv(DSquare(ToDouble(nInitialU))),
                        DInv(DSquare(ToDouble(nFinalU)))))
    IN  IF eT = "JOULES" THEN DMul(eV, EV_TO_JOULES) ELSE eV

\* the formula with the conversion applied to the other unit
calculateBohrEnergyWrongUnit(Zu, nInitialU, nFinalU, eT) ==
    LET eV == DMul(DMul(RYDBERG_CONSTANT, DSquare(ToDouble(Zu))),
                   DSub(DInv(DSquare(ToDouble(nFinalU))),
                        DInv(DSquare(ToDouble(nInitialU)))))
    IN  IF eT = "ELECTRON_VOLT" THEN DMul(eV, EV_TO_JOULES) ELSE eV

calculateBohrEnergy(Zu, nInitialU, nFinalU, eT) ==
    LET eV == DMul(DMul(RYDBERG_CONSTANT, DSquare(ToDouble(Zu))),
                   DSub(DInv(DSquare(ToDouble(nFinalU))),
                        DInv(DSquare(ToDouble(nInitialU)))))
    IN  IF eT = "JOULES" THEN DMul(eV, EV_TO_JOULES) ELSE eV

(***************************************************************************)
(* The text written to std::cout, one record for each << chain.            *)
(***************************************************************************)
Msg(m) == [msg |-> m]
\* "Input an integer between " << min << " and " << max
RangeMsg(lo, hi) == [msg |-> "range", min |-> lo, max |-> hi]
\* "For a (" << Z << ", " << nInitial << ", " << nFinal << ") transition ..."
TransitionMsg(z, ni, nf) == [msg |-> "transition", Z |-> z, nInitial |-> ni, nFinal |-> nf]
\* "    E = " << std::setprecision(3) << energy
EnergyMsg(x) == [msg |-> "E", energy |-> x]

EVPrompt == Msg("Electron-volts or joules? ['e', 'J']:")
BoolPrompt == Msg("Yay, or nay? [y/n]:")

mainVars == <<Z, nInitial, nFinal, eType, energy, shouldContinue>>

(***************************************************************************)
(* The readers.  One step is one evaluation of the while condition, that   *)
(* is one std::getline, with the loop body or the return that follows it.  *)
(***************************************************************************)
\* what `return possibleInteger;` may read: anything when it was never written
Readable(ll) == IF ll.k = "uninit" THEN {LLVal(g) : g \in Uninit} ELSE {ll}

\* getint giving up on a line it cannot use: it returns min instead of asking again
getintReturnsMinOnReject(at, got, typed) ==
    /\ pc = at
    /\ \/ /\ cinGood' = FALSE
          /\ line' = <<>>
          /\ \E v \in Readable(possibleInteger) : ret' = LLToInt(v)
          /\ pc' = got
          /\ UNCHANGED <<out, possibleInteger, min, max,
                         firstStringSet, secondStringSet, mainVars>>
       \/ /\ cinGood
          /\ line' \in typed
          /\ possibleInteger' = Extracted[line'].value
          /\ ret' = IF Accepted(Extracted[line'], min, max)
                    THEN LLToInt(Extracted[line'].value) ELSE min
          /\ pc' = got
          /\ UNCHANGED <<cinGood, out, min, max, firstStringSet, secondStringSet, mainVars>>

\* int getint(int min, int max), called at `at`, returning to `got`, the
\* user typing the lines of `typed`
getint(at, got, typed) ==
    /\ pc = at
    /\ \/ \* std::getline fails (end of input): the loop ends and
          \* possibleInteger is returned as it is
          /\ cinGood' = FALSE
          /\ line' = <<>>
          /\ \E v \in Readable(possibleInteger) : ret' = LLToInt(v)
          /\ pc' = got
          /\ UNCHANGED <<out, possibleInteger, min, max,
                         firstStringSet, secondStringSet, mainVars>>
       \/ \* std::getline reads a line that passes both tests: break, return
          /\ cinGood
          /\ line' \in typed
          /\ Accepted(Extracted[line'], min, max)
          /\ possibleInteger' = Extracted[line'].value
          /\ ret' = LLToInt(Extracted[line'].value)
          /\ pc' = got
          /\ UNCHANGED <<cinGood, out, min, max, firstStringSet, secondStringSet, mainVars>>
       \/ \* std::getline reads a line that fails a test: the two messages
          /\ cinGood
          /\ CanRetry
          /\ line' \in typed
          /\ ~Accepted(Extracted[line'], min, max)
          /\ possibleInteger' = Extracted[line'].value
          /\ out' = out \o <<Msg("invalid"), RangeMsg(min, max)>>
          /\ UNCHANGED <<pc, cinGood, ret, min, max, firstStringSet, secondStringSet, mainVars>>

\* int getBetweenTwoStringSetOptions(message, firstStringSet, secondStringSet);
\* responses is Responses(firstStringSet, secondStringSet)
getBetweenTwoStringSetOptions(at, got, message, responses, typed) ==
    /\ pc = at
    /\ \/ \* std::getline fails: the loop ends and response, never written,
          \* is returned
          /\ cinGood' = FALSE
          /\ line' = <<>>
          /\ \E response \in Uninit : ret' = response
          /\ pc' = got
          /\ UNCHANGED <<out, possibleInteger, min, max,
                         firstStringSet, secondStringSet, mainVars>>
       \/ \* std::getline reads a line found in one of the sets: break, return
          /\ cinGood
          /\ line' \in typed
          /\ responses[line'] # 0
          /\ ret' = responses[line']
          /\ pc' = got
          /\ UNCHANGED <<cinGood, out, possibleInteger, min, max,
                         firstStringSet, secondStringSet, mainVars>>
       \/ \* std::getline reads a line found in neither set: the two messages
          /\ cinGood
          /\ CanRetry
          /\ line' \in typed
          /\ responses[line'] = 0
          /\ out' = out \o <<Msg("invalid"), message>>
          /\ UNCHANGED <<pc, cinGood, ret, possibleInteger, min, max,
                         firstStringSet, secondStringSet, mainVars>>

\* the call getint(1): the parameters and the fresh locals
CallGetint ==
    /\ min' = 1
    /\ max' = INT_MAX
    /\ possibleInteger' = LLUninit
    /\ line' = <<>>
    /\ UNCHANGED <<firstStringSet, secondStringSet>>

\* a call of getBetweenTwoStringSetOptions: the parameters and the fresh local line
CallChoice(first, second) ==
    /\ firstStringSet' = first
    /\ secondStringSet' = second
    /\ line' = <<>>
    /\ UNCHANGED <<possibleInteger, min, max>>

(***************************************************************************)
(* main.                                                                   *)
(***************************************************************************)
Welcome ==
    /\ pc = "main"
    /\ out' = <<Msg("welcome")>>
    /\ pc' = "do"
    /\ UNCHANGED <<cinGood, line, possibleInteger, min, max,
                   firstStringSet, secondStringSet, ret, mainVars>>

\* the top of the do body: a new pass, with its own Z, nInitial, nFinal,
\* eType and energy; the atomic number is asked for
LoopTop ==
    /\ pc = "do"
    /\ shouldContinue' = TRUE
    /\ Z' = 0 /\ nInitial' = 0 /\ nFinal' = 0
    /\ eType' = "ELECTRON_VOLT" /\ energy' = ToDouble(0)
    /\ out' = <<Msg("promptZ")>>
    /\ CallGetint
    /\ pc' = "getZ"
    /\ UNCHANGED <<cinGood, ret>>

AssignZ ==
    /\ pc = "gotZ"
    /\ Z' = ToUnsigned(ret)
    /\ out' = Append(out, Msg("promptNInitial"))
    /\ CallGetint
    /\ pc' = "getNInitial"
    /\ UNCHANGED <<cinGood, ret, nInitial, nFinal, eType, energy, shouldContinue>>

AssignNInitial ==
    /\ pc = "gotNInitial"
    /\ nInitial' = ToUnsigned(ret)
    /\ out' = Append(out, Msg("promptNFinal"))
    /\ CallGetint
    /\ pc' = "getNFinal"
    /\ UNCHANGED <<cinGood, ret, Z, nFinal, eType, energy, shouldContinue>>

AssignNFinal ==
    /\ pc = "gotNFinal"
    /\ nFinal' = ToUnsigned(ret)
    /\ pc' = "order"
    /\ UNCHANGED <<cinGood, out, line, possibleInteger, min, max,
                   firstStringSet, secondStringSet, ret,
                   Z, nInitial, eType, energy, shouldContinue>>

\* the check without its continue: the guidance is printed and the pass goes on
CheckOrderNoContinue ==
    /\ pc = "order"
    /\ out' = IF nInitial < nFinal
              THEN out \o <<Msg("orderError"), Msg("startAgain"), Msg("askUnit")>>
              ELSE Append(out, Msg("askUnit"))
    /\ CallChoice(validEV, validJoules)
    /\ pc' = "getUnit"
    /\ UNCHANGED <<cinGood, ret, mainVars>>

\* if (nInitial < nFinal) { ...; continue; }, else the unit is asked for
CheckOrder ==
    /\ pc = "order"
    /\ IF nInitial < nFinal
       THEN /\ out' = out \o <<Msg("orderError"), Msg("startAgain")>>
            /\ pc' = "while"
            /\ UNCHANGED <<line, possibleInteger, min, max, firstStringSet, secondStringSet>>
       ELSE /\ out' = Append(out, Msg("askUnit"))
            /\ CallChoice(validEV, validJoules)
            /\ pc' = "getUnit"
    /\ UNCHANGED <<cinGood, ret, mainVars>>

\* EnergyType eType = getEnergyType();
AssignEType ==
    /\ pc = "gotUnit"
    /\ eType' = IF ret = 1 THEN "ELECTRON_VOLT" ELSE "JOULES"
    /\ pc' = "compute"
    /\ UNCHANGED <<cinGood, out, line, possibleInteger, min, max,
                   firstStringSet, secondStringSet, ret,
                   Z, nInitial, nFinal, energy, shouldContinue>>

\* double energy = calculateBohrEnergy(Z, nInitial, nFinal, eType);
Compute ==
    /\ pc = "compute"
    /\ energy' = calculateBohrEnergy(Z, nInitial, nFinal, eType)
    /\ pc' = "report"
    /\ UNCHANGED <<cinGood, out, line, possibleInteger, min, max,
                   firstStringSet, secondStringSet, ret,
                   Z, nInitial, nFinal, eType, shouldContinue>>

\* the continue question printed before the report
ReportAfterQuestion ==
    /\ pc = "report"
    /\ out' = out \o <<Msg("askContinue"),
                       TransitionMsg(Z, nInitial, nFinal), EnergyMsg(energy),
                       IF eType = "ELECTRON_VOLT" THEN Msg("eV") ELSE Msg("J")>>
    /\ CallChoice(validTrues, validFalses)
    /\ pc' = "getContinue"
    /\ UNCHANGED <<cinGood, ret, mainVars>>

\* the report with the two suffixes exchanged
ReportWrongSuffix ==
    /\ pc = "report"
    /\ out' = out \o <<TransitionMsg(Z, nInitial, nFinal), EnergyMsg(energy),
                       IF eType = "ELECTRON_VOLT" THEN Msg("J") ELSE Msg("eV"),
                       Msg("askContinue")>>
    /\ CallChoice(validTrues, validFalses)
    /\ pc' = "getContinue"
    /\ UNCHANGED <<cinGood, ret, mainVars>>

\* the report, then the continue question and the call of getBool
Report ==
    /\ pc = "report"
    /\ out' = out \o <<TransitionMsg(Z, nInitial, nFinal), EnergyMsg(energy),
                       IF eType = "ELECTRON_VOLT" THEN Msg("eV") ELSE Msg("J"),
                       Msg("askContinue")>>
    /\ CallChoice(validTrues, validFalses)
    /\ pc' = "getContinue"
    /\ UNCHANGED <<cinGood, ret, mainVars>>

\* shouldContinue = getBool();
AssignContinue ==
    /\ pc = "gotContinue"
    /\ shouldContinue' = (ret = 1)
    /\ pc' = "while"
    /\ UNCHANGED <<cinGood, out, line, possibleInteger, min, max,
                   firstStringSet, secondStringSet, ret,
                   Z, nInitial, nFinal, eType, energy>>

\* the loop condition taken to be true whatever was answered
WhileForever ==
    /\ pc = "while"
    /\ pc' = "do"
    /\ UNCHANGED <<cinGood, out, line, possibleInteger, min, max,
                   firstStringSet, secondStringSet, ret, mainVars>>

\* } while (shouldContinue);  return 0;
While ==
    /\ pc = "while"
    /\ pc' = IF shouldContinue THEN "do" ELSE "return0"
    /\ UNCHANGED <<cinGood, out, line, possibleInteger, min, max,
                   firstStringSet, secondStringSet, ret, mainVars>>

Init ==
    /\ pc = "main"
    /\ cinGood = TRUE
    /\ out = <<>>
    /\ line = <<>>
    /\ possibleInteger = LLUninit
    /\ min = INT_MIN
    /\ max = INT_MAX
    /\ firstStringSet = <<>>
    /\ secondStringSet = <<>>
    /\ ret = 0
    /\ Z = 0 /\ nInitial = 0 /\ nFinal = 0
    /\ eType = "ELECTRON_VOLT"
    /\ energy = ToDouble(0)
    /\ shouldContinue = FALSE

Next ==
    \/ Welcome
    \/ LoopTop
    \/ getint("getZ", "gotZ", Lines)
    \/ AssignZ
    \/ getint("getNInitial", "gotNInitial", Lines)
    \/ AssignNInitial
    \/ getint("getNFinal", "gotNFinal", Lines)
    \/ AssignNFinal
    \/ CheckOrder
    \/ getBetweenTwoStringSetOptions("getUnit", "gotUnit", EVPrompt,
                                     EnergyTypeResponses, Lines)
    \/ AssignEType
    \/ Compute
    \/ Report
    \/ getBetweenTwoStringSetOptions("getContinue", "gotContinue", BoolPrompt,
                                     BoolResponses, Lines)
    \/ AssignContinue
    \/ While

Spec == Init /\ [][Next]_vars

(***************************************************************************)
(* The program with a user who goes on typing.  The program takes its next *)
(* step whenever it can, which at a blocking read means that the user      *)
(* types a line or ends the input (WF on every step).  The user, asked     *)
(* again and again for the final level, at some time types 1, which is not *)
(* above any initial level typed, and asked again and again whether to     *)
(* continue, at some time answers n (SF on these two steps).               *)
(***************************************************************************)
UserTypesDescending ==
    /\ getint("getNFinal", "gotNFinal", {<<"1">>})
    /\ cinGood'
    /\ pc' = "gotNFinal"
    /\ ret' <= nInitial

UserAnswersNo ==
    /\ getBetweenTwoStringSetOptions("getContinue", "gotContinue", BoolPrompt,
                                     BoolResponses, {<<"n">>})
    /\ cinGood'
    /\ pc' = "gotContinue"
    /\ ret' = -1

SpecLive ==
    /\ Init /\ [][Next]_vars
    /\ WF_vars(Welcome)
    /\ WF_vars(LoopTop)
    /\ WF_vars(getint("getZ", "gotZ", Lines))
    /\ WF_vars(AssignZ)
    /\ WF_vars(getint("getNInitial", "gotNInitial", Lines))
    /\ WF_vars(AssignNInitial)
    /\ WF_vars(getint("getNFinal", "gotNFinal", Lines))
    /\ WF_vars(AssignNFinal)
    /\ WF_vars(CheckOrder)
    /\ WF_vars(getBetweenTwoStringSetOptions("getUnit", "gotUnit", EVPrompt,
                                            EnergyTypeResponses, Lines))
    /\ WF_vars(AssignEType)
    /\ WF_vars(Compute)
    /\ WF_vars(Report)
    /\ WF_vars(getBetweenTwoStringSetOptions("getContinue", "gotContinue", BoolPrompt,
                                            BoolResponses, Lines))
    /\ WF_vars(AssignContinue)
    /\ WF_vars(While)
    /\ SF_vars(UserTypesDescending)
    /\ SF_vars(UserAnswersNo)

(***************************************************************************)
(* getint run alone, for a range [min, max] of the caller's choosing.      *)
(***************************************************************************)
RangeMins == {INT_MIN, 0, 1}
RangeMaxs == {0, 10, INT_MAX}

InitGetint ==
    /\ pc = "getint"
    /\ cinGood = TRUE
    /\ out = <<>>
    /\ line = <<>>
    /\ possibleInteger = LLUninit
    /\ min \in RangeMins
    /\ max \in RangeMaxs
    /\ firstStringSet = <<>>
    /\ secondStringSet = <<>>
    /\ ret = 0
    /\ Z = 0 /\ nInitial = 0 /\ nFinal = 0
    /\ eType = "ELECTRON_VOLT"
    /\ energy = ToDouble(0)
    /\ shouldContinue = FALSE

NextGetint == getint("getint", "gotint", SignedLines)

SpecGetint == InitGetint /\ [][NextGetint]_vars

(***************************************************************************)
(* getint run alone on lines around the ends of the ranges of int and of   *)
(* long long.                                                              *)
(***************************************************************************)
\* the lines typed: WideLines and a few lines of every day
GetintWideLines ==
    WideLines \cup {<<>>, <<"a">>, <<"0">>, <<"1">>, <<"1", "0">>, <<"1", "1">>}

InitGetintWide ==
    /\ pc = "getintWide"
    /\ cinGood = TRUE
    /\ out = <<>>
    /\ line = <<>>
    /\ possibleInteger = LLUninit
    /\ min \in RangeMins
    /\ max \in RangeMaxs
    /\ firstStringSet = <<>>
    /\ secondStringSet = <<>>
    /\ ret = 0
    /\ Z = 0 /\ nInitial = 0 /\ nFinal = 0
    /\ eType = "ELECTRON_VOLT"
    /\ energy = ToDouble(0)
    /\ shouldContinue = FALSE

NextGetintWide == getint("getintWide", "gotintWide", GetintWideLines)

SpecGetintWide == InitGetintWide /\ [][NextGetintWide]_vars

(***************************************************************************)
(* getBetweenTwoStringSetOptions run alone, for two synonym sets of the    *)
(* caller's choosing.                                                      *)
(***************************************************************************)
\* the strings the sets are made of
ChoiceStrings == {<<"a">>, <<"A">>, <<"b">>}

\* every vector of at most MaxSetLen of them
ChoiceSets == UNION {[1..n -> ChoiceStrings] : n \in 0..MaxSetLen}

\* the lines typed at the choice reader run alone
ChoiceLines == ChoiceStrings \cup {<<>>, <<"B">>, <<"c">>, <<"a", " ">>}

InitChoice ==
    /\ pc = "getChoice"
    /\ cinGood = TRUE
    /\ out = <<>>
    /\ line = <<>>
    /\ possibleInteger = LLUninit
    /\ min = INT_MIN
    /\ max = INT_MAX
    /\ firstStringSet \in ChoiceSets
    /\ secondStringSet \in ChoiceSets
    /\ ret = 0
    /\ Z = 0 /\ nInitial = 0 /\ nFinal = 0
    /\ eType = "ELECTRON_VOLT"
    /\ energy = ToDouble(0)
    /\ shouldContinue = FALSE

NextChoice ==
    getBetweenTwoStringSetOptions("getChoice", "gotChoice", Msg("message"),
        [l \in ChoiceLines |-> Matched(firstStringSet, secondStringSet, l)],
        ChoiceLines)

SpecChoice == InitChoice /\ [][NextChoice]_vars

(***************************************************************************)
(* Vocabulary of the properties.                                           *)
(***************************************************************************)
Blank == {" ", "\t", "\n", "\r"}
Digits == {"0", "1", "2", "3", "4", "5", "6", "7", "8", "9"}

\* <<b, i, j>>: the line starts, after blanks and b sign characters, with the
\* digits s[i..j], and no digit follows them
LeadNumber(s) ==
    {t \in (0..1) \X (1..Len(s)) \X (1..Len(s)) :
        /\ t[2] <= t[3]
        /\ t[2] - t[1] >= 1
        /\ \A k \in 1..(t[2] - t[1] - 1) : s[k] \in Blank
        /\ (t[1] = 1 => s[t[2] - 1] \in {"+", "-"})
        /\ \A k \in t[2]..t[3] : s[k] \in Digits
        /\ (t[3] < Len(s) => s[t[3] + 1] \notin Digits)}

HasLeadNumber(s) == LeadNumber(s) # {}

RECURSIVE Magnitude(_, _, _)
Magnitude(s, i, j) ==
    IF i > j THEN 0 ELSE 10 * Magnitude(s, i, j - 1) + DigitVal(s[j])

\* the integer the line starts with
LeadValue(s) ==
    LET t == CHOOSE t \in LeadNumber(s) : TRUE
        m == Magnitude(s, t[2], t[3])
    IN  IF t[1] = 1 /\ s[t[2] - 1] = "-" THEN -m ELSE m

\* nothing but white space follows the number
OnlyBlankAfter(s) ==
    LET t == CHOOSE t \in LeadNumber(s) : TRUE
    IN  \A k \in (t[3] + 1)..Len(s) : s[k] \in Blank

\* the line is one getint is to accept for [lo, hi]
Acceptable(s, lo, hi) ==
    /\ HasLeadNumber(s)
    /\ lo <= LeadValue(s) /\ LeadValue(s) <= hi
    /\ OnlyBlankAfter(s)

\* the line is one of the synonyms of the set, whatever the case of its letters
InSet(set, s) ==
    \E i \in 1..Len(set) :
        /\ Len(set[i]) = Len(s)
        /\ \A k \in 1..Len(s) : tolower(set[i][k]) = tolower(s[k])

Printed(m) == \E i \in 1..Len(out) : out[i].msg = m

\* what main itself wrote in this pass, without the readers' messages
MainKinds ==
    LET readers == {"invalid", "range", EVPrompt.msg, BoolPrompt.msg}
        own == SelectSeq(out, LAMBDA e : e.msg \notin readers)
    IN  [i \in 1..Len(own) |-> own[i].msg]

\* energy holds the result of this pass's call of calculateBohrEnergy
Computed == pc \in {"report", "getContinue", "gotContinue"}

(***************************************************************************)
(* C1.  getint, one line: a line that starts with an integer v is accepted *)
(* if and only if min <= v <= max and only white space follows the number, *)
(* and then the value returned is v.                                       *)
(***************************************************************************)
C1_AcceptedIffInRangeAndClean ==
    (pc \in {"getint", "gotint"} /\ HasLeadNumber(line)) =>
        /\ (pc = "gotint") <=>
              (/\ min <= LeadValue(line)
               /\ LeadValue(line) <= max
               /\ OnlyBlankAfter(line))
        /\ (pc = "gotint" => ret = LeadValue(line))

\* "10" is accepted for [1, 10]: the upper end is inside the range
C1_Witness ==
    /\ pc = "gotint"
    /\ line = <<"1", "0">>
    /\ min = 1 /\ max = 10
    /\ ret = 10

(***************************************************************************)
(* C2.  getint, the retry loop: every message printed is the error message *)
(* naming min and max, and the value returned is that of an acceptable     *)
(* line, the one read last; no rejected line's value is returned.          *)
(***************************************************************************)
C2_ReturnsFirstAcceptableLine ==
    pc \in {"getint", "gotint"} =>
        /\ \A i \in 1..Len(out) :
              out[i] = IF i % 2 = 1 THEN Msg("invalid") ELSE RangeMsg(min, max)
        /\ (pc = "gotint" => Acceptable(line, min, max) /\ ret = LeadValue(line))

(***************************************************************************)
(* C3.  The choice reader returns 1 on a line of the first set, -1 on a    *)
(* line of the second set, and only on such a line.                        *)
(***************************************************************************)
C3_ReturnsOnlyOnMatch ==
    /\ pc = "gotUnit" =>
          /\ InSet(validEV, line) \/ InSet(validJoules, line)
          /\ (InSet(validEV, line) => ret = 1)
          /\ (InSet(validJoules, line) /\ ~InSet(validEV, line) => ret = -1)
    /\ pc = "gotContinue" =>
          /\ InSet(validTrues, line) \/ InSet(validFalses, line)
          /\ (InSet(validTrues, line) => ret = 1)
          /\ (InSet(validFalses, line) /\ ~InSet(validTrues, line) => ret = -1)

(***************************************************************************)
(* C4.  Whenever the energy is computed or reported, nInitial > nFinal.    *)
(* Stated for the runs whose input has not ended, where Z, nInitial and    *)
(* nFinal are the values typed.                                            *)
(***************************************************************************)
C4_StrictlyDescending ==
    (cinGood /\ pc \in {"compute", "report"}) => nInitial > nFinal

(***************************************************************************)
(* C5.  With nInitial < nFinal the pass prints the guidance and ends: no   *)
(* unit prompt, no computation, no report, no continue question; the loop  *)
(* goes round, and the next thing asked for is the atomic number, with no  *)
(* line read in between.                                                   *)
(***************************************************************************)
C5_NoLaterStep ==
    \A i \in 1..Len(out) :
        out[i].msg \notin {"askUnit", "transition", "E", "eV", "J", "askContinue",
                           EVPrompt.msg, BoolPrompt.msg}

C5_ForcedRetry ==
    [][ /\ (pc = "order" /\ nInitial < nFinal) =>
              /\ pc' = "while"
              /\ out' = out \o <<Msg("orderError"), Msg("startAgain")>>
              /\ C5_NoLaterStep'
              /\ UNCHANGED <<cinGood, line, energy, eType>>
        /\ (pc = "while" /\ nInitial < nFinal) =>
              /\ pc' = "do"
              /\ UNCHANGED <<cinGood, line, out, energy, eType>>
        /\ (pc = "do") =>
              /\ pc' = "getZ"
              /\ out' = <<Msg("promptZ")>>
              /\ cinGood' = cinGood
      ]_vars

\* the pass that was cut short, about to go round
C5_Witness ==
    /\ pc = "while"
    /\ nInitial = 1 /\ nFinal = 11
    /\ Printed("orderError")

(***************************************************************************)
(* C6.  In one pass the program asks for Z, nInitial, nFinal, the unit and *)
(* whether to continue, in this order; the report comes after the unit is  *)
(* chosen and before the continue question, once.                          *)
(***************************************************************************)
C6_FullPass ==
    <<"promptZ", "promptNInitial", "promptNFinal", "askUnit", "transition", "E",
      IF eType = "ELECTRON_VOLT" THEN "eV" ELSE "J", "askContinue">>

C6_StepOrder ==
    /\ pc \in {"getZ", "gotZ"} => MainKinds = SubSeq(C6_FullPass, 1, 1)
    /\ pc \in {"getNInitial", "gotNInitial"} => MainKinds = SubSeq(C6_FullPass, 1, 2)
    /\ pc \in {"getNFinal", "gotNFinal", "order"} => MainKinds = SubSeq(C6_FullPass, 1, 3)
    /\ pc \in {"getUnit", "gotUnit", "compute", "report"} =>
          MainKinds = SubSeq(C6_FullPass, 1, 4)
    /\ pc \in {"getContinue", "gotContinue"} => MainKinds = C6_FullPass
    /\ pc = "while" =>
          \/ MainKinds = C6_FullPass
          \/ MainKinds = SubSeq(C6_FullPass, 1, 3) \o <<"orderError", "startAgain">>

\* a whole pass, waiting for the answer to the continue question
C6_Witness ==
    /\ pc = "getContinue"
    /\ MainKinds = C6_FullPass
    /\ Z = 1 /\ nInitial = 11 /\ nFinal = 1

(***************************************************************************)
(* C7.  After the continue question the loop goes round exactly on an      *)
(* answer of the accept set and the program ends exactly on an answer of   *)
(* the reject set: it ends in no other way.                                *)
(***************************************************************************)
C7_EndsOnlyOnNo ==
    /\ pc = "return0" => Printed("askContinue") /\ InSet(validFalses, line)
    /\ (pc = "do" /\ Printed("askContinue")) => InSet(validTrues, line)

(***************************************************************************)
(* C8.  For Z >= 1 and nInitial > nFinal >= 1 the energy in electron-volts *)
(* is greater than 0.                                                      *)
(***************************************************************************)
C8_PositiveEnergy ==
    (/\ Computed
     /\ eType = "ELECTRON_VOLT"
     /\ Z >= 1 /\ nFinal >= 1 /\ nInitial > nFinal) => DPositive(energy)

C8_Witness ==
    /\ pc = "report"
    /\ eType = "ELECTRON_VOLT"
    /\ Z = 1 /\ nInitial = 11 /\ nFinal = 10
    /\ DPositive(energy)

(***************************************************************************)
(* C9.  The energy in joules is the energy in electron-volts times         *)
(* 1.6e-19, and the energy in electron-volts is                            *)
(* R * Z^2 * (1/nFinal^2 - 1/nInitial^2), not scaled.                      *)
(***************************************************************************)
C9_Unscaled(z, ni, nf) ==
    DMul(DMul(RYDBERG_CONSTANT, Fin(z * z, 1, 0, 0)),
         DSub(DInv(Fin(nf * nf, 1, 0, 0)), DInv(Fin(ni * ni, 1, 0, 0))))

C9_JouleIsScaledElectronVolt ==
    Computed =>
        /\ (eType = "ELECTRON_VOLT" => energy = C9_Unscaled(Z, nInitial, nFinal))
        /\ (eType = "JOULES" =>
              energy = DMul(calculateBohrEnergy(Z, nInitial, nFinal, "ELECTRON_VOLT"),
                            Fin(16, 10, 0, -19)))

C9_Witness ==
    /\ pc = "report"
    /\ eType = "JOULES"
    /\ Z = 11 /\ nInitial = 10 /\ nFinal = 1
    /\ DPositive(energy)

(***************************************************************************)
(* C10.  getint does not return when the input has ended: it returns only  *)
(* while std::cin is good, and only a value accepted from a line.          *)
(***************************************************************************)
C10_NoReturnAtEndOfInput ==
    pc = "gotint" => (cinGood /\ Acceptable(line, min, max))

(***************************************************************************)
(* C11.  A line a reader cannot use only makes that reader ask again: the  *)
(* two messages of the reader are printed, the program stays at the same   *)
(* read, and Z, nInitial, nFinal, the unit, the energy and shouldContinue  *)
(* keep their values.  No step of a reader changes any of them.            *)
(***************************************************************************)
C11_NumericReads == {"getZ", "getNInitial", "getNFinal"}

C11_SmallestScopeRecovery ==
    [][ /\ (pc \in C11_NumericReads /\ cinGood' /\ ~Acceptable(line', 1, INT_MAX)) =>
              /\ pc' = pc
              /\ out' = out \o <<Msg("invalid"), RangeMsg(1, INT_MAX)>>
              /\ UNCHANGED mainVars
        /\ (pc = "getUnit" /\ cinGood'
                /\ ~InSet(validEV, line') /\ ~InSet(validJoules, line')) =>
              /\ pc' = pc
              /\ out' = out \o <<Msg("invalid"), EVPrompt>>
              /\ UNCHANGED mainVars
        /\ (pc = "getContinue" /\ cinGood'
                /\ ~InSet(validTrues, line') /\ ~InSet(validFalses, line')) =>
              /\ pc' = pc
              /\ out' = out \o <<Msg("invalid"), BoolPrompt>>
              /\ UNCHANGED mainVars
        /\ (pc \in C11_NumericReads \cup {"getUnit", "getContinue"}) =>
              UNCHANGED mainVars
      ]_vars

\* "maybe" typed at the unit question: asked again, the three numbers kept
C11_Witness ==
    /\ pc = "getUnit"
    /\ line = <<"m", "a", "y", "b", "e">>
    /\ out[Len(out)] = EVPrompt
    /\ Z = 11 /\ nInitial = 1 /\ nFinal = 1

(***************************************************************************)
(* C12.  The energy function is called with the three values accepted by   *)
(* the three numeric reads of the same pass: each read returns the value   *)
(* of an acceptable line, main stores it unchanged in Z, nInitial or       *)
(* nFinal, nothing else writes these before the call, and at the call each *)
(* of the three is at least 1 and at most INT_MAX.                         *)
(***************************************************************************)
C12_ReadReturnsAcceptedValue ==
    pc \in {"gotZ", "gotNInitial", "gotNFinal"} =>
        /\ Acceptable(line, 1, INT_MAX)
        /\ ret = LeadValue(line)

C12_StoredAsRead ==
    /\ (pc = "gotZ" => Z' = ret)
    /\ (pc = "gotNInitial" => nInitial' = ret)
    /\ (pc = "gotNFinal" => nFinal' = ret)
    /\ (pc \notin {"do", "gotZ"} => Z' = Z)
    /\ (pc \notin {"do", "gotNInitial"} => nInitial' = nInitial)
    /\ (pc \notin {"do", "gotNFinal"} => nFinal' = nFinal)

C12_PositiveAtCall ==
    pc = "compute" =>
        /\ 1 <= Z /\ Z <= INT_MAX
        /\ 1 <= nInitial /\ nInitial <= INT_MAX
        /\ 1 <= nFinal /\ nFinal <= INT_MAX

C12_ValuesUsedByCompute ==
    /\ []C12_ReadReturnsAcceptedValue
    /\ [][C12_StoredAsRead]_vars
    /\ []C12_PositiveAtCall

(***************************************************************************)
(* C13.  The report of a pass names the Z, nInitial and nFinal of the      *)
(* pass, gives the energy of this triple in the unit of the pass, and ends *)
(* in "eV" exactly when the unit is electron-volts and in "J" exactly when *)
(* it is joules; the unit is electron-volts after a line of the            *)
(* electron-volt set and joules after a line of the joule set.  Nothing of *)
(* a report is printed before the energy is computed.                      *)
(***************************************************************************)
C13_ReportText ==
    SelectSeq(out, LAMBDA e : e.msg \in {"transition", "E", "eV", "J"})

C13_Energy ==
    IF eType = "ELECTRON_VOLT" THEN C9_Unscaled(Z, nInitial, nFinal)
    ELSE DMul(C9_Unscaled(Z, nInitial, nFinal), Fin(16, 10, 0, -19))

C13_ReportConsistency ==
    /\ pc \in {"getContinue", "gotContinue"} =>
          /\ Len(C13_ReportText) = 3
          /\ C13_ReportText[1] = TransitionMsg(Z, nInitial, nFinal)
          /\ C13_ReportText[2] = EnergyMsg(C13_Energy)
          /\ (C13_ReportText[3].msg = "eV") <=> (eType = "ELECTRON_VOLT")
          /\ (C13_ReportText[3].msg = "J") <=> (eType = "JOULES")
    /\ pc \in {"compute", "report"} =>
          /\ (InSet(validEV, line) => eType = "ELECTRON_VOLT")
          /\ (InSet(validJoules, line) => eType = "JOULES")
    /\ pc \in {"getZ", "gotZ", "getNInitial", "gotNInitial", "getNFinal", "gotNFinal",
               "order", "getUnit", "gotUnit", "compute", "report"} =>
          C13_ReportText = <<>>

\* a report in joules
C13_Witness ==
    /\ pc = "getContinue"
    /\ eType = "JOULES"
    /\ Len(C13_ReportText) = 3
    /\ C13_ReportText[3] = Msg("J")
    /\ Z = 1 /\ nInitial = 11 /\ nFinal = 1

(***************************************************************************)
(* C14.  The choice reader, for any two synonym sets: a line that matches  *)
(* a string of both sets, whatever the case of its letters and wherever    *)
(* the strings stand in the sets, gives 1 (accept).                        *)
(***************************************************************************)
C14_AcceptSetDecidedFirst ==
    (pc = "gotChoice" /\ InSet(firstStringSet, line) /\ InSet(secondStringSet, line)) =>
        ret = 1

\* "A" matches the last string of the first set and the first of the second
C14_Witness ==
    /\ pc = "gotChoice"
    /\ firstStringSet = <<<<"b">>, <<"a">>>>
    /\ secondStringSet = <<<<"A">>, <<"b">>>>
    /\ line = <<"A">>
    /\ ret = 1

(***************************************************************************)
(* C15.  getint, for every range: a line that holds no integer (an empty   *)
(* line, a line of white space, a line that starts with something that is  *)
(* not a number) is rejected, so getint, while the input lasts, returns    *)
(* only on a line that starts with an integer.                             *)
(***************************************************************************)
C15_NoNumberRejected ==
    (pc = "gotint" /\ cinGood) => HasLeadNumber(line)

(***************************************************************************)
(* C16.  getint, numbers outside the range of int: a line that is a number *)
(* above INT_MAX or below INT_MIN is never accepted, the value returned    *)
(* for a line that is a number is that number, and getint never returns    *)
(* while the 64-bit intermediate holds a number outside the range of int,  *)
(* which the conversion to int would wrap.                                 *)
(***************************************************************************)
\* the line is a decimal number: digits, after a minus sign or not
C16_IsNumber(s) ==
    /\ Len(s) >= 1
    /\ \A i \in 2..Len(s) : s[i] \in Digits
    /\ s[1] \in Digits \cup {"-"}
    /\ (s[1] = "-" => Len(s) >= 2)

\* a < b for two digit strings without leading zeros
C16_Less(a, b) ==
    \/ Len(a) < Len(b)
    \/ /\ Len(a) = Len(b)
       /\ \E i \in 1..Len(a) :
             /\ \A k \in 1..(i - 1) : a[k] = b[k]
             /\ DigitVal(a[i]) < DigitVal(b[i])

C16_OutsideInt(s) ==
    IF s[1] = "-"
    THEN C16_Less(<<"2", "1", "4", "7", "4", "8", "3", "6", "4", "8">>, Tail(s))
    ELSE C16_Less(<<"2", "1", "4", "7", "4", "8", "3", "6", "4", "7">>, s)

\* the number a digit string spells, counted downwards
RECURSIVE C16_Negative(_, _)
C16_Negative(s, j) ==
    IF j = 0 THEN 0 ELSE 10 * C16_Negative(s, j - 1) - DigitVal(s[j])

\* the number the line spells, for a line inside the range of int
C16_Value(s) ==
    IF s[1] = "-" THEN C16_Negative(Tail(s), Len(s) - 1) ELSE Magnitude(s, 1, Len(s))

C16_OutOfWidthRejected ==
    pc = "gotintWide" =>
        /\ possibleInteger.k \notin {"above", "below"}
        /\ (cinGood /\ C16_IsNumber(line)) =>
              /\ ~C16_OutsideInt(line)
              /\ ret = C16_Value(line)

(***************************************************************************)
(* C17.  With a user who goes on typing, at some time a final level not    *)
(* above the initial one and at some time "no" to the continue question:   *)
(* unless the input ends, the program terminates.  To terminate every call *)
(* of a reader has to return and every pass of main's loop has to come to  *)
(* its end, so no loop goes round for ever.                                *)
(***************************************************************************)
C17_Terminates == <>(pc = "return0" \/ ~cinGood)

\* the program ended on a "no", the input not having ended
C17_Witness ==
    /\ pc = "return0"
    /\ cinGood
    /\ ~shouldContinue
    /\ InSet(validFalses, line)
    /\ nInitial = 11 /\ nFinal = 11

(***************************************************************************)
(* C18.  The two fixed adapters: no string of the electron-volt vector     *)
(* equals, letter case apart, a string of the joule vector, and no string  *)
(* of the true vector one of the false vector; so the value the reader     *)
(* returns for a line is the same as if the second vector were tested      *)
(* first.                                                                  *)
(***************************************************************************)
C18_SecondSetFirst(first, second, s) ==
    IF InSet(second, s) THEN -1 ELSE IF InSet(first, s) THEN 1 ELSE 0

C18_DisjointSynonymSets ==
    /\ \A i \in 1..Len(validEV) : ~InSet(validJoules, validEV[i])
    /\ \A i \in 1..Len(validTrues) : ~InSet(validFalses, validTrues[i])
    /\ (pc = "gotUnit" /\ cinGood) =>
          ret = C18_SecondSetFirst(validEV, validJoules, line)
    /\ (pc = "gotContinue" /\ cinGood) =>
          ret = C18_SecondSetFirst(validTrues, validFalses, line)

\* "Ev" answered to the unit question
C18_Witness ==
    /\ pc = "gotUnit"
    /\ cinGood
    /\ line = <<"E", "v">>
    /\ ret = 1

====
